---- MODULE Spec2Model ----
(***************************************************************************)
(* A model of the DiskCheck scanner (src-tauri/src/scanner.rs): the        *)
(* progress reporter, the retention policy (maybe_keep_child), the         *)
(* explicit-stack walk of scan_pruned_tree and the orchestration of        *)
(* scan_directory.                                                         *)
(*                                                                         *)
(* The file system is the environment.  It is revealed to the walk one     *)
(* directory entry at a time, exactly as ReadDir reveals it to the code,   *)
(* and everything revealed is recorded in `disk`, which the code never     *)
(* reads: the properties compare what the code computed with `disk`.       *)
(*                                                                         *)
(* A path is the sequence of entry positions below the root (<<>> is the   *)
(* root).  FsNode.name and FsNode.extension are functions of the path      *)
(* alone (display_name, file_extension_lower) and are left out.            *)
(* u64::saturating_add is written +: the sums of the model stay far below  *)
(* 2^64, where the two agree.                                              *)
(***************************************************************************)
EXTENDS Integers, Sequences, FiniteSets, TLC

\* ---------------------------------------------------------------- bounds
\* Directory entries (below the root) the file system holds.
MaxEntries == 3
\* File lengths are 0..MaxFileSize bytes.
MaxFileSize == 1
\* opts.max_children_per_dir ranges over 0..MaxChildrenPerDir.
MaxChildrenPerDir == 2

\* ------------------------------------------------------ program constants
EMIT_EVERY_FILES == 512
EMIT_EVERY_DIRS == 64
THROTTLE_MS == 120

FileSizes == 0 .. MaxFileSize

VARIABLES
    pc,             \* where scan_directory stands
    opts,           \* ScanOptions
    stack,          \* Vec<DirFrame>, the top is the last element
    stats,          \* ScanStats
    returned_nodes, \* the global node budget already spent
    progress,       \* ProgressReporter, with the events its window received
    now,            \* the monotonic clock, in ms
    result,         \* what scan_directory returned
    disk,           \* the file system entries revealed so far (environment)
    callers         \* the threads inside the reporter, when it is shared

vars ==
    <<pc, opts, stack, stats, returned_nodes, progress, now, result, disk, callers>>

\* ---------------------------------------------------------------- values
RootPath == <<>>

NoError == <<"None">>
NoResult == [tag |-> "None"]
Ok(node) == [tag |-> "Ok", node |-> node]
Err(msg) == [tag |-> "Err", err |-> msg]

FsNode(path, kind, size, children, error) ==
    [path |-> path, kind |-> kind, size |-> size, children |-> children,
     error |-> error]

DirFrame(path, depth) ==
    [path |-> path, depth |-> depth, iter |-> 0, size |-> 0, children |-> <<>>]

DiskEntry(path, kind, size) == [path |-> path, kind |-> kind, size |-> size]

\* --------------------------------------------------------- ProgressReporter
ProgressReporter_new(t) ==
    [scanned_files |-> 0, scanned_dirs |-> 0, total_bytes |-> 0,
     last_emit |-> t, window |-> <<>>]

emit(p, current_path) ==
    [p EXCEPT !.window = Append(@,
        [scanned_files |-> p.scanned_files, scanned_dirs |-> p.scanned_dirs,
         total_bytes |-> p.total_bytes, current_path |-> current_path])]

emit_force(p, t, current_path) ==
    [emit(p, current_path) EXCEPT !.last_emit = t]

\* maybe_emit without the comparison.
maybe_emit_NoThrottle(p, t, current_path) == emit_force(p, t, current_path)

maybe_emit(p, t, current_path) ==
    IF t - p.last_emit >= THROTTLE_MS
    THEN emit_force(p, t, current_path)
    ELSE p

\* file_scanned storing the bytes of the file instead of adding them.
file_scanned_StoreBytes(p, t, bytes, current_path) ==
    LET q == [p EXCEPT !.scanned_files = @ + 1, !.total_bytes = bytes]
    IN  IF q.scanned_files % EMIT_EVERY_FILES = 0
        THEN maybe_emit(q, t, current_path)
        ELSE q

file_scanned(p, t, bytes, current_path) ==
    LET q == [p EXCEPT !.scanned_files = @ + 1, !.total_bytes = @ + bytes]
    IN  IF q.scanned_files % EMIT_EVERY_FILES = 0
        THEN maybe_emit(q, t, current_path)
        ELSE q

dir_scanned(p, t, current_path) ==
    LET q == [p EXCEPT !.scanned_dirs = @ + 1]
    IN  IF q.scanned_dirs % EMIT_EVERY_DIRS = 0
        THEN maybe_emit(q, t, current_path)
        ELSE q

\* --------------------------------------------------------- retention policy
\* Vec::sort_by(|a, b| b.size.cmp(&a.size)): a stable sort, largest first.
InsertBySize(sorted, x) ==
    LET k == Cardinality({i \in 1 .. Len(sorted) : sorted[i].size >= x.size})
    IN  SubSeq(sorted, 1, k) \o <<x>> \o SubSeq(sorted, k + 1, Len(sorted))

RECURSIVE SortDesc(_)
SortDesc(s) ==
    IF s = <<>> THEN <<>>
    ELSE InsertBySize(SortDesc(SubSeq(s, 1, Len(s) - 1)), s[Len(s)])

\* Vec::truncate(n)
Truncate(s, n) == IF Len(s) > n THEN SubSeq(s, 1, n) ELSE s

\* maybe_keep_child truncating the buffer without sorting it first.
maybe_keep_child_TruncateUnsorted(children, child, max_children_per_dir) ==
    LET pushed == Append(children, child)
    IN  IF Len(pushed) >= max_children_per_dir * 2
        THEN Truncate(pushed, max_children_per_dir)
        ELSE pushed

maybe_keep_child(children, child, max_children_per_dir) ==
    LET pushed == Append(children, child)
    IN  IF Len(pushed) >= max_children_per_dir * 2
        THEN Truncate(SortDesc(pushed), max_children_per_dir)
        ELSE pushed

\* ------------------------------------------------------- scan_pruned_tree
\* The mutable locals of the walk, as one value.
WalkState(stk, sts, rn, pr) ==
    [stack |-> stk, stats |-> sts, returned_nodes |-> rn, progress |-> pr]

Top(w) == w.stack[Len(w.stack)]

\* frame.iter.next() on the top frame: the iterator moves on by one entry.
NextEntry(w) == [w EXCEPT !.stack[Len(w.stack)].iter = @ + 1]

\* The path of the entry that the top frame's iterator yields next.
ChildPath(w) == Append(Top(w).path, Top(w).iter + 1)

\* Admit with the budget test off by one (<= for <).
Admit_OffByOne(size, rn, o) == size >= o.min_node_bytes /\ rn <= o.max_total_nodes

\* Admit without the retention floor.
Admit_NoFloor(size, rn, o) == rn < o.max_total_nodes

\* A file is kept: size >= opts.min_node_bytes && returned_nodes < opts.max_total_nodes
Admit(size, rn, o) == size >= o.min_node_bytes /\ rn < o.max_total_nodes

\* Some(Err(_)): an entry that could not be read.
\* OnEntryError leaving the failed entry out of the count.
OnEntryError_Uncounted(w) == w

OnEntryError(w) == [w EXCEPT !.stats.skipped_entries = @ + 1]

\* fs::symlink_metadata(&child_path) failed.
OnMetadataError(w) == [w EXCEPT !.stats.skipped_entries = @ + 1]

\* OnSymlink counting the symlink among the skipped entries.
OnSymlink_Skipped(w) == [w EXCEPT !.stats.skipped_entries = @ + 1]

\* file_type.is_symlink(): continue.
OnSymlink(w) == w

\* Neither file nor directory: ignored.
OnOther(w) == w

\* OnFile raising the flag for every file it does not keep, small ones included.
OnFile_FlagBelowFloor(w, t, size, child_path, o) ==
    LET n == Len(w.stack)
        keep == Admit(size, w.returned_nodes, o)
        child == FsNode(child_path, "File", size, <<>>, NoError)
    IN  [w EXCEPT
            !.progress = file_scanned(@, t, size, child_path),
            !.stack[n].size = @ + size,
            !.stack[n].children =
                IF keep THEN maybe_keep_child(@, child, o.max_children_per_dir)
                ELSE @,
            !.returned_nodes = IF keep THEN @ + 1 ELSE @,
            !.stats.hit_node_limit = IF ~keep THEN TRUE ELSE @]

\* OnFile keeping a file without charging it to the budget.
OnFile_Uncounted(w, t, size, child_path, o) ==
    LET n == Len(w.stack)
        keep == Admit(size, w.returned_nodes, o)
        child == FsNode(child_path, "File", size, <<>>, NoError)
    IN  [w EXCEPT
            !.progress = file_scanned(@, t, size, child_path),
            !.stack[n].size = @ + size,
            !.stack[n].children =
                IF keep THEN maybe_keep_child(@, child, o.max_children_per_dir)
                ELSE @,
            !.stats.hit_node_limit =
                IF ~keep /\ size >= o.min_node_bytes THEN TRUE ELSE @]

\* meta.is_file()
OnFile(w, t, size, child_path, o) ==
    LET n == Len(w.stack)
        keep == Admit(size, w.returned_nodes, o)
        child == FsNode(child_path, "File", size, <<>>, NoError)
    IN  [w EXCEPT
            !.progress = file_scanned(@, t, size, child_path),
            !.stack[n].size = @ + size,
            !.stack[n].children =
                IF keep THEN maybe_keep_child(@, child, o.max_children_per_dir)
                ELSE @,
            !.returned_nodes = IF keep THEN @ + 1 ELSE @,
            !.stats.hit_node_limit =
                IF ~keep /\ size >= o.min_node_bytes THEN TRUE ELSE @]

\* OnDir not counting a directory that could not be opened.
OnDir_DeniedUncounted(w, t, child_path, opened) ==
    LET reported == [w EXCEPT !.progress = dir_scanned(@, t, child_path)]
    IN  IF opened
        THEN [reported EXCEPT
                !.stack = Append(@, DirFrame(child_path, Top(w).depth + 1))]
        ELSE reported

\* OnDir pushing the frame of a subdirectory at the depth of its parent.
OnDir_SameDepth(w, t, child_path, opened) ==
    LET reported == [w EXCEPT !.progress = dir_scanned(@, t, child_path)]
    IN  IF opened
        THEN [reported EXCEPT
                !.stack = Append(@, DirFrame(child_path, Top(w).depth))]
        ELSE [reported EXCEPT !.stats.skipped_entries = @ + 1]

\* meta.is_dir(): fs::read_dir(&child_path) succeeded (opened) or failed.
OnDir(w, t, child_path, opened) ==
    LET reported == [w EXCEPT !.progress = dir_scanned(@, t, child_path)]
    IN  IF opened
        THEN [reported EXCEPT
                !.stack = Append(@, DirFrame(child_path, Top(w).depth + 1))]
        ELSE [reported EXCEPT !.stats.skipped_entries = @ + 1]

\* FinalizeChildren without the truncation.
FinalizeChildren_NoTruncate(children, max_children_per_dir) == SortDesc(children)

\* FinalizeChildren without the sort.
FinalizeChildren_NoSort(children, max_children_per_dir) ==
    Truncate(children, max_children_per_dir)

\* The final sort and truncation of a completed frame's buffer.
FinalizeChildren(children, max_children_per_dir) ==
    Truncate(SortDesc(children), max_children_per_dir)

\* keep_this asking of a directory more than the floor.
KeepThis_Strict(depth, size, rn, o) ==
    depth = 0 \/ (size > o.min_node_bytes /\ rn < o.max_total_nodes)

\* keep_this
KeepThis(depth, size, rn, o) ==
    depth = 0 \/ (size >= o.min_node_bytes /\ rn < o.max_total_nodes)

\* FoldIntoParent adding the size of a child only when the child is kept.
FoldIntoParent_KeptOnly(parent, node, keep, max_children_per_dir) ==
    IF keep
    THEN [parent EXCEPT
            !.size = @ + node.size,
            !.children = maybe_keep_child(@, node, max_children_per_dir)]
    ELSE parent

\* parent.size and parent.children once a completed child node is attached.
FoldIntoParent(parent, node, keep, max_children_per_dir) ==
    [parent EXCEPT
        !.size = @ + node.size,
        !.children = IF keep THEN maybe_keep_child(@, node, max_children_per_dir)
                     ELSE @]

\* RootError reporting the skipped entries before the truncation.
RootError_SkipFirst(sts, o) ==
    IF sts.skipped_entries > 0 THEN <<"Skipped", sts.skipped_entries>>
    ELSE IF sts.hit_node_limit THEN <<"Truncated", o.max_total_nodes>>
    ELSE NoError

\* The diagnostic attached to the root.
RootError(sts, o) ==
    IF sts.hit_node_limit THEN <<"Truncated", o.max_total_nodes>>
    ELSE IF sts.skipped_entries > 0 THEN <<"Skipped", sts.skipped_entries>>
    ELSE NoError

\* CompleteRoot applying the retention policy to the root as well.
CompleteRoot_Retained(node, sts, o) ==
    IF node.size >= o.min_node_bytes
    THEN Ok([node EXCEPT !.error = RootError(sts, o)])
    ELSE NoResult

\* "Root completed": what the walk returns.
CompleteRoot(node, sts, o) == Ok([node EXCEPT !.error = RootError(sts, o)])

\* None: the top frame's iterator is exhausted.  The frame is popped, its node
\* finalized and attached to the parent, or returned when it was the root.
\* Yields the walk state and what the walk returned (NoResult: it goes on).
OnExhausted(w, o) ==
    LET n == Len(w.stack)
        completed == w.stack[n]
        rest == SubSeq(w.stack, 1, n - 1)
        node == FsNode(completed.path, "Directory", completed.size,
                       FinalizeChildren(completed.children, o.max_children_per_dir),
                       NoError)
        keep_this == KeepThis(completed.depth, node.size, w.returned_nodes, o)
        sts == IF completed.depth # 0 /\ node.size >= o.min_node_bytes
                  /\ w.returned_nodes >= o.max_total_nodes
               THEN [w.stats EXCEPT !.hit_node_limit = TRUE]
               ELSE w.stats
        attach == keep_this /\ completed.depth # 0
    IN  IF rest # <<>>
        THEN [walk |-> WalkState(
                        [rest EXCEPT ![n - 1] =
                            FoldIntoParent(@, node, attach, o.max_children_per_dir)],
                        sts,
                        IF attach THEN w.returned_nodes + 1 ELSE w.returned_nodes,
                        w.progress),
              returned |-> NoResult]
        ELSE [walk |-> WalkState(rest, sts, w.returned_nodes, w.progress),
              returned |-> CompleteRoot(node, sts, o)]

\* The leaf returned for a root that is not a directory.
RootLeaf(kind, size) == Ok(FsNode(RootPath, kind, size, <<>>, NoError))

\* ------------------------------------------------------------ environment
Below == {e \in disk : e.path # RootPath}
CanYield == Cardinality(Below) < MaxEntries
Reveal(path, kind, size) == disk' = disk \cup {DiskEntry(path, kind, size)}

\* The window exists before the reporter does; it has received nothing.
NoReporter == [window |-> <<>>]
NoStats == [skipped_entries |-> 0, hit_node_limit |-> FALSE]

\* The options a scan is run with: a floor from "keeps every file" to "keeps no
\* file", and a budget from 0 to "never binds" (the root and every entry).
ScanOptions ==
    [min_node_bytes : 0 .. MaxFileSize + 1,
     max_children_per_dir : 0 .. MaxChildrenPerDir,
     max_total_nodes : {0, 1, 2, MaxEntries + 1}]

Init ==
    /\ pc = "call"
    /\ opts \in ScanOptions
    /\ stack = <<>>
    /\ stats = NoStats
    /\ returned_nodes = 0
    /\ progress = NoReporter
    /\ now = 0
    /\ result = NoResult
    /\ disk = {}
    /\ callers = <<>>

Walk == WalkState(stack, stats, returned_nodes, progress)

SetWalk(w) ==
    /\ stack' = w.stack
    /\ stats' = w.stats
    /\ returned_nodes' = w.returned_nodes
    /\ progress' = w.progress

\* ---------------------------------------------------------- scan_directory
\* The existence check made inside the blocking task, after the start marker.
ScanDirectory_NotFound_AfterStart ==
    /\ pc = "call"
    /\ Reveal(RootPath, "missing", 0)
    /\ progress' = emit_force(ProgressReporter_new(now), now, RootPath)
    /\ result' = Err(<<"PathNotFound">>)
    /\ pc' = "done"
    /\ UNCHANGED <<opts, callers, stack, stats, returned_nodes, now>>

\* !root.exists()
ScanDirectory_NotFound ==
    /\ pc = "call"
    /\ Reveal(RootPath, "missing", 0)
    /\ result' = Err(<<"PathNotFound">>)
    /\ pc' = "done"
    /\ UNCHANGED <<opts, callers, stack, stats, returned_nodes, progress, now>>

\* The root exists: the reporter is created and the start marker emitted.
ScanDirectory_Spawn ==
    /\ pc = "call"
    /\ progress' = emit_force(ProgressReporter_new(now), now, RootPath)
    /\ pc' = "spawned"
    /\ UNCHANGED <<opts, callers, stack, stats, returned_nodes, now, result, disk>>

\* scan_pruned_tree(...)? returned Ok: the end marker is emitted, at the time
\* the clock then shows.
ScanDirectory_Finish ==
    /\ pc = "walked"
    /\ \E t \in {now, now + THROTTLE_MS} :
        /\ now' = t
        /\ progress' = emit_force(progress, t, RootPath)
    /\ pc' = "done"
    /\ UNCHANGED <<opts, callers, stack, stats, returned_nodes, result, disk>>

\* -------------------------------------------- scan_pruned_tree, on the root
Root_MetadataError ==
    /\ pc = "spawned"
    /\ Reveal(RootPath, "meta_error", 0)
    /\ result' = Err(<<"MetadataFailed">>)
    /\ pc' = "done"
    /\ UNCHANGED <<opts, callers, stack, stats, returned_nodes, progress, now>>

Root_Symlink ==
    /\ pc = "spawned"
    /\ Reveal(RootPath, "symlink", 0)
    /\ result' = RootLeaf("Symlink", 0)
    /\ pc' = "walked"
    /\ UNCHANGED <<opts, callers, stack, stats, returned_nodes, progress, now>>

Root_File ==
    /\ pc = "spawned"
    /\ \E size \in FileSizes :
        /\ Reveal(RootPath, "file", size)
        /\ progress' = file_scanned(progress, now, size, RootPath)
        /\ result' = RootLeaf("File", size)
    /\ pc' = "walked"
    /\ UNCHANGED <<opts, callers, stack, stats, returned_nodes, now>>

Root_Other ==
    /\ pc = "spawned"
    /\ Reveal(RootPath, "other", 0)
    /\ result' = RootLeaf("Other", 0)
    /\ pc' = "walked"
    /\ UNCHANGED <<opts, callers, stack, stats, returned_nodes, progress, now>>

Root_ReadDirError ==
    /\ pc = "spawned"
    /\ Reveal(RootPath, "dir_denied", 0)
    /\ result' = Err(<<"ReadDirFailed">>)
    /\ pc' = "done"
    /\ UNCHANGED <<opts, callers, stack, stats, returned_nodes, progress, now>>

Root_Dir ==
    /\ pc = "spawned"
    /\ Reveal(RootPath, "dir", 0)
    /\ stack' = <<DirFrame(RootPath, 0)>>
    /\ stats' = NoStats
    /\ returned_nodes' = 1
    /\ progress' = dir_scanned(progress, now, RootPath)
    /\ pc' = "walk"
    /\ UNCHANGED <<opts, callers, now, result>>

\* ------------------------------------ scan_pruned_tree, one turn of the loop
InLoop == pc = "walk" /\ stack # <<>>

EntryError ==
    /\ InLoop /\ CanYield
    /\ Reveal(ChildPath(Walk), "read_error", 0)
    /\ SetWalk(OnEntryError(NextEntry(Walk)))
    /\ UNCHANGED <<pc, opts, callers, now, result>>

EntryMetadataError ==
    /\ InLoop /\ CanYield
    /\ Reveal(ChildPath(Walk), "meta_error", 0)
    /\ SetWalk(OnMetadataError(NextEntry(Walk)))
    /\ UNCHANGED <<pc, opts, callers, now, result>>

EntrySymlink ==
    /\ InLoop /\ CanYield
    /\ Reveal(ChildPath(Walk), "symlink", 0)
    /\ SetWalk(OnSymlink(NextEntry(Walk)))
    /\ UNCHANGED <<pc, opts, callers, now, result>>

EntryOther ==
    /\ InLoop /\ CanYield
    /\ Reveal(ChildPath(Walk), "other", 0)
    /\ SetWalk(OnOther(NextEntry(Walk)))
    /\ UNCHANGED <<pc, opts, callers, now, result>>

EntryFile ==
    /\ InLoop /\ CanYield
    /\ \E size \in FileSizes :
        /\ Reveal(ChildPath(Walk), "file", size)
        /\ SetWalk(OnFile(NextEntry(Walk), now, size, ChildPath(Walk), opts))
    /\ UNCHANGED <<pc, opts, callers, now, result>>

EntryDir ==
    /\ InLoop /\ CanYield
    /\ Reveal(ChildPath(Walk), "dir", 0)
    /\ SetWalk(OnDir(NextEntry(Walk), now, ChildPath(Walk), TRUE))
    /\ UNCHANGED <<pc, opts, callers, now, result>>

EntryDirDenied ==
    /\ InLoop /\ CanYield
    /\ Reveal(ChildPath(Walk), "dir_denied", 0)
    /\ SetWalk(OnDir(NextEntry(Walk), now, ChildPath(Walk), FALSE))
    /\ UNCHANGED <<pc, opts, callers, now, result>>

\* The iterator of the top frame is exhausted; with no frame left the loop
\* breaks and the walk falls through to its last line.
FrameDone ==
    /\ pc = "walk"
    /\ IF stack = <<>>
       THEN /\ result' = Err(<<"Aborted">>)
            /\ pc' = "done"
            /\ UNCHANGED <<stack, stats, returned_nodes, progress>>
       ELSE LET out == OnExhausted(Walk, opts)
            IN  /\ SetWalk(out.walk)
                /\ result' = out.returned
                /\ pc' = IF out.returned.tag = "Ok" THEN "walked" ELSE "walk"
    /\ UNCHANGED <<opts, callers, now, disk>>

Next ==
    \/ ScanDirectory_NotFound
    \/ ScanDirectory_Spawn
    \/ ScanDirectory_Finish
    \/ Root_MetadataError
    \/ Root_Symlink
    \/ Root_File
    \/ Root_Other
    \/ Root_ReadDirError
    \/ Root_Dir
    \/ EntryError
    \/ EntryMetadataError
    \/ EntrySymlink
    \/ EntryOther
    \/ EntryFile
    \/ EntryDir
    \/ EntryDirDenied
    \/ FrameDone

Spec == Init /\ [][Next]_vars

\* =============================================================== properties
\* What the properties read: the returned tree and the revealed file system.
RECURSIVE NodesOf(_)
NodesOf(n) == {n} \cup UNION {NodesOf(n.children[i]) : i \in DOMAIN n.children}

RECURSIVE CountSeq(_)
CountNodes(n) == 1 + CountSeq(n.children)
CountSeq(s) ==
    IF s = <<>> THEN 0
    ELSE CountNodes(s[1]) + CountSeq(SubSeq(s, 2, Len(s)))

RECURSIVE SumSizes(_)
SumSizes(S) ==
    IF S = {} THEN 0
    ELSE LET e == CHOOSE x \in S : TRUE IN e.size + SumSizes(S \ {e})

IsPrefix(p, q) == Len(p) <= Len(q) /\ SubSeq(q, 1, Len(p)) = p

\* The files on disk anywhere beneath `path`, and their total length.
FilesBeneath(path) ==
    {e \in disk : e.kind = "file" /\ e.path # path /\ IsPrefix(path, e.path)}
DiskBytes(path) == SumSizes(FilesBeneath(path))

\* The entries directly in the directory `path`.
EntriesIn(path) ==
    {e \in disk : Len(e.path) = Len(path) + 1 /\ IsPrefix(path, e.path)}

\* The entries on disk that the walk could not read.
DiskFailures ==
    {e \in Below : e.kind \in {"read_error", "meta_error", "dir_denied"}}

RootIs(kind) == \E e \in disk : e.path = RootPath /\ e.kind = kind

\* scan_pruned_tree has returned a node.
Returned == pc \in {"walked", "done"} /\ result.tag = "Ok"
Tree == result.node
Directories == {d \in NodesOf(Tree) : d.kind = "Directory"}

Max(a, b) == IF a >= b THEN a ELSE b

\* C1 (Exactness): in the tree of a completed scan the size of every Directory
\* node is the total length of the files on disk beneath it, whatever the
\* options are and whatever was pruned from children.
C1_Exactness ==
    Returned => \A d \in Directories : d.size = DiskBytes(d.path)

\* A completed scan that lost a file below the floor, a candidate to the
\* per-directory cap and a candidate to the global budget, and still reports
\* the bytes of all three.
C1_Witness ==
    /\ Returned /\ RootIs("dir")
    /\ Tree.size = 2 /\ Tree.children = <<>>
    /\ opts.min_node_bytes = 1 /\ opts.max_children_per_dir = 0
    /\ opts.max_total_nodes = 2 /\ returned_nodes = 2
    /\ stats.hit_node_limit
    /\ \E e \in FilesBeneath(RootPath) : e.size = 0

\* C2 as claimed (global bound): the returned tree never has more than
\* max_total_nodes nodes, counting the root.
C2_Original ==
    Returned => CountNodes(Tree) <= opts.max_total_nodes

\* C2 as amended: the returned tree never has more than
\* max(1, max_total_nodes) nodes, the root being returned even with a budget of 0.
C2_BoundedTotal ==
    Returned => CountNodes(Tree) <= Max(1, opts.max_total_nodes)

\* A completed directory scan that used its whole budget and dropped a candidate.
C2_Witness ==
    /\ Returned /\ RootIs("dir")
    /\ opts.max_total_nodes = 2
    /\ CountNodes(Tree) = 2
    /\ stats.hit_node_limit

\* C3 (per-directory bound): no Directory node of the returned tree has more
\* than max_children_per_dir children.
C3_BoundedChildren ==
    Returned =>
        \A d \in Directories : Len(d.children) <= opts.max_children_per_dir

\* A returned directory that is full although it had more qualifying files on
\* disk than the cap, none of them lost to the budget.
C3_Witness ==
    /\ Returned
    /\ ~stats.hit_node_limit
    /\ \E d \in Directories :
        /\ opts.max_children_per_dir >= 1
        /\ Len(d.children) = opts.max_children_per_dir
        /\ Cardinality({e \in EntriesIn(d.path) :
                e.kind = "file" /\ e.size >= opts.min_node_bytes})
               > opts.max_children_per_dir

\* Every node held, at any nesting level, in the buffer of a frame on the stack.
Buffered ==
    UNION {UNION {NodesOf(stack[i].children[j]) : j \in DOMAIN stack[i].children} :
             i \in DOMAIN stack}

\* Every node of the returned tree but its root.
ReturnedBelowRoot == IF Returned THEN NodesOf(Tree) \ {Tree} ELSE {}

\* C4 (retention floor): at every point of the walk and in the returned tree,
\* every node held in a children list has size >= min_node_bytes.
C4_RetentionFloor ==
    \A n \in Buffered \cup ReturnedBelowRoot : n.size >= opts.min_node_bytes

\* A returned tree that holds a directory made of files which are all below
\* the floor, and none of those files.
C4_Witness ==
    /\ Returned
    /\ opts.min_node_bytes = 2
    /\ \E e \in FilesBeneath(RootPath) : e.size = 1
    /\ \E n \in ReturnedBelowRoot : n.kind = "Directory" /\ n.size = 2

\* C5 (root always returned): once the walk of a root directory that could be
\* opened is over, the root Directory node is what is returned, and
\* scan_directory returns it.
C5_RootReturned ==
    (RootIs("dir") /\ pc \in {"walked", "done"}) =>
        /\ result.tag = "Ok"
        /\ result.node.kind = "Directory"
        /\ result.node.path = RootPath

\* The root returned although it is below the floor and the budget was
\* already spent when its frame was finalized.
C5_Witness ==
    /\ pc = "done" /\ RootIs("dir") /\ result.tag = "Ok"
    /\ Tree.size < opts.min_node_bytes
    /\ returned_nodes >= opts.max_total_nodes
    /\ opts.max_total_nodes >= 1

\* C6 (ordering): in the returned tree the children of every Directory node
\* are in non-increasing order of size.
C6_ChildrenSorted ==
    Returned =>
        \A d \in Directories :
            \A i, j \in DOMAIN d.children :
                i < j => d.children[i].size >= d.children[j].size

\* A returned directory whose two children were met on disk smallest first.
C6_Witness ==
    /\ Returned
    /\ \E d \in Directories :
        /\ Len(d.children) = 2
        /\ d.children[1].size > d.children[2].size
        /\ d.children[1].path[Len(d.children[1].path)]
             > d.children[2].path[Len(d.children[2].path)]

\* The step read a symlink entry of a directory.
SymlinkEntryRead ==
    \E e \in disk' \ disk : e.kind = "symlink" /\ e.path # RootPath

\* Nothing of the scan state moves but the iterator of the top frame.
OnlyIteratorAdvanced ==
    /\ Len(stack') = Len(stack)
    /\ \A i \in DOMAIN stack :
        /\ stack'[i].path = stack[i].path
        /\ stack'[i].depth = stack[i].depth
        /\ stack'[i].size = stack[i].size
        /\ stack'[i].children = stack[i].children
        /\ stack'[i].iter = IF i = Len(stack) THEN stack[i].iter + 1 ELSE stack[i].iter
    /\ UNCHANGED <<pc, opts, stats, returned_nodes, progress, result>>

\* C7 (no symlink traversal): reading a directory entry that is a symlink
\* changes nothing but the position of the iterator (no frame pushed, no size,
\* buffer, budget, skip count or progress counter touched), and a root that is
\* a symlink is returned as a Symlink leaf of size 0 without children.
C7_NoSymlinkTraversal ==
    /\ [][SymlinkEntryRead => OnlyIteratorAdvanced]_vars
    /\ [](RootIs("symlink") =>
            /\ stack = <<>>
            /\ result = Ok(FsNode(RootPath, "Symlink", 0, <<>>, NoError)))

\* A completed scan of a directory that holds a symlink next to a file.
C7_Witness ==
    /\ pc = "done" /\ result.tag = "Ok" /\ RootIs("dir")
    /\ \E e \in Below : e.kind = "symlink"
    /\ Tree.size > 0
    /\ Tree.error = NoError

DeniedBelow == {e \in Below : e.kind = "dir_denied"}

\* What C8 says apart from the diagnostic: the scan completes with the root
\* node, the unreadable directory is not in the tree, and the sizes count every
\* file that was met, before or after it.
C8_Isolated ==
    /\ result.tag = "Ok"
    /\ \A e \in DeniedBelow : \A n \in NodesOf(Tree) : n.path # e.path
    /\ \A d \in Directories : d.size = DiskBytes(d.path)

\* C8 as claimed (error isolation): when a subdirectory cannot be opened it is
\* skipped, its siblings are scanned and sized, the scan completes, and the
\* root's error mentions the skip count.
C8_Original ==
    (pc = "done" /\ RootIs("dir") /\ DeniedBelow # {}) =>
        /\ C8_Isolated
        /\ Tree.error = <<"Skipped", Cardinality(DiskFailures)>>

\* C8 as amended: ... and the root's error mentions the skip count unless the
\* hit-node-limit flag is set, in which case it is the truncation message.
C8_ErrorIsolation ==
    (pc = "done" /\ RootIs("dir") /\ DeniedBelow # {}) =>
        /\ C8_Isolated
        /\ Tree.error = IF stats.hit_node_limit
                        THEN <<"Truncated", opts.max_total_nodes>>
                        ELSE <<"Skipped", Cardinality(DiskFailures)>>

\* A completed scan whose first entry is a directory that could not be opened
\* and whose second entry is a file, counted in the root's size.
C8_Witness ==
    /\ pc = "done" /\ result.tag = "Ok" /\ RootIs("dir")
    /\ \E e \in DeniedBelow : e.path = <<1>>
    /\ \E e \in FilesBeneath(RootPath) : e.path = <<2>> /\ e.size = 1
    /\ Tree.size >= 1
    /\ Tree.error = <<"Skipped", 1>>

\* C9 (root diagnostic): when a directory scan completes, the root's error is
\* the truncation message if the hit-node-limit flag is set, else the skip
\* message with the exact number of entries that could not be read if there is
\* one, else absent; an empty directory comes back with size 0, no children and
\* no error; and no other node carries an error.
C9_RootDiagnostic ==
    /\ (Returned /\ RootIs("dir")) =>
        /\ Tree.error =
             IF stats.hit_node_limit THEN <<"Truncated", opts.max_total_nodes>>
             ELSE IF DiskFailures # {} THEN <<"Skipped", Cardinality(DiskFailures)>>
             ELSE NoError
        /\ Below = {} =>
             Tree = FsNode(RootPath, "Directory", 0, <<>>, NoError)
    /\ \A n \in Buffered \cup ReturnedBelowRoot : n.error = NoError

\* A completed scan that both dropped a candidate to the budget and skipped an
\* entry: the truncation message wins.
C9_Witness ==
    /\ Returned /\ RootIs("dir")
    /\ stats.hit_node_limit
    /\ DiskFailures # {}
    /\ Tree.error = <<"Truncated", opts.max_total_nodes>>

\* The snapshot the window received first is the start marker, and the one it
\* received last is the end marker, taken after the walk.
StartMarkerEmitted ==
    /\ Len(progress.window) >= 1
    /\ progress.window[1] =
         [scanned_files |-> 0, scanned_dirs |-> 0, total_bytes |-> 0,
          current_path |-> RootPath]

EndMarkerEmitted ==
    /\ Len(progress.window) >= 2
    /\ progress.window[Len(progress.window)] =
         [scanned_files |-> progress.scanned_files,
          scanned_dirs |-> progress.scanned_dirs,
          total_bytes |-> progress.total_bytes,
          current_path |-> RootPath]

\* C10 (start and end markers): every scan_directory call whose root exists
\* has emitted, when it returns, a forced event at the start and a forced event
\* at the end, whatever the outcome of the walk.
C10_Markers ==
    (pc = "done" /\ ~RootIs("missing")) =>
        StartMarkerEmitted /\ EndMarkerEmitted

\* ================================================== the reporter, shared
\* ProgressReporter is Sync: this specification has NumCallers threads call
\* file_scanned and dir_scanned on one reporter, statement by statement, while
\* the clock runs.  The reporter is taken in the middle of a scan, one call
\* short of the 512th file and of the 64th directory.
NumCallers == 2
\* The clock moves in steps of TickMs up to MaxNow.
TickMs == 60
MaxNow == 180

\* The statements of file_scanned, dir_scanned, maybe_emit and emit_force,
\* each one atomic by itself.
count_file(p, bytes) ==
    [p EXCEPT !.scanned_files = @ + 1, !.total_bytes = @ + bytes]
count_dir(p) == [p EXCEPT !.scanned_dirs = @ + 1]
\* self.last_emit.lock().map(|last| now.duration_since(*last) >= 120ms): the
\* guard is dropped at the end of this statement.
should_emit(p, t) == t - p.last_emit >= THROTTLE_MS
\* if let Ok(mut last_emit) = self.last_emit.lock() { *last_emit = Instant::now() }
set_last_emit(p, t) == [p EXCEPT !.last_emit = t]

NoOptions ==
    [min_node_bytes |-> 0, max_children_per_dir |-> 0, max_total_nodes |-> 0]

\* A thread outside the reporter.  t: the Instant it read in maybe_emit;
\* seen: the last_emit it compared t with; emitted_at: when it emitted.
IdleCaller ==
    [at |-> "idle", t |-> 0, seen |-> 0, emitted |-> FALSE, emitted_at |-> 0]

\* The reporter after the start marker, 511 files and 63 directories.
MidScanReporter ==
    [emit_force(ProgressReporter_new(0), 0, RootPath) EXCEPT
        !.scanned_files = EMIT_EVERY_FILES - 1,
        !.scanned_dirs = EMIT_EVERY_DIRS - 1]

RaceInit ==
    /\ pc = "walk"
    /\ opts = NoOptions
    /\ stack = <<>>
    /\ stats = NoStats
    /\ returned_nodes = 1
    /\ progress = MidScanReporter
    /\ now = 0
    /\ result = NoResult
    /\ disk = {}
    /\ callers = [i \in 1 .. NumCallers |-> IdleCaller]

RaceFrame == UNCHANGED <<pc, opts, stack, stats, returned_nodes, result, disk>>

\* file_scanned up to the test of `next`, and the Instant::now() of maybe_emit.
Race_FileScanned(i) ==
    /\ callers[i].at = "idle"
    /\ progress' = count_file(progress, 0)
    /\ callers' = [callers EXCEPT ![i] =
         IF progress'.scanned_files % EMIT_EVERY_FILES = 0
         THEN [@ EXCEPT !.at = "check", !.t = now]
         ELSE [@ EXCEPT !.at = "returned"]]
    /\ UNCHANGED now /\ RaceFrame

Race_DirScanned(i) ==
    /\ callers[i].at = "idle"
    /\ progress' = count_dir(progress)
    /\ callers' = [callers EXCEPT ![i] =
         IF progress'.scanned_dirs % EMIT_EVERY_DIRS = 0
         THEN [@ EXCEPT !.at = "check", !.t = now]
         ELSE [@ EXCEPT !.at = "returned"]]
    /\ UNCHANGED now /\ RaceFrame

\* maybe_emit: the comparison, under the lock.
Race_Check(i) ==
    /\ callers[i].at = "check"
    /\ callers' = [callers EXCEPT ![i] =
         [@ EXCEPT !.seen = progress.last_emit,
                   !.at = IF should_emit(progress, callers[i].t)
                          THEN "emit" ELSE "returned"]]
    /\ UNCHANGED <<progress, now>> /\ RaceFrame

\* emit_force: self.emit(current_path), outside the lock.
Race_Emit(i) ==
    /\ callers[i].at = "emit"
    /\ progress' = emit(progress, <<i>>)
    /\ callers' = [callers EXCEPT ![i] =
         [@ EXCEPT !.at = "set", !.emitted = TRUE, !.emitted_at = now]]
    /\ UNCHANGED now /\ RaceFrame

\* emit_force: the lock is taken again and last_emit set.
Race_SetLastEmit(i) ==
    /\ callers[i].at = "set"
    /\ progress' = set_last_emit(progress, now)
    /\ callers' = [callers EXCEPT ![i].at = "returned"]
    /\ UNCHANGED now /\ RaceFrame

Tick ==
    /\ now + TickMs <= MaxNow
    /\ now' = now + TickMs
    /\ UNCHANGED <<progress, callers>> /\ RaceFrame

RaceNext ==
    \/ \E i \in DOMAIN callers : Race_FileScanned(i)
    \/ \E i \in DOMAIN callers : Race_DirScanned(i)
    \/ \E i \in DOMAIN callers : Race_Check(i)
    \/ \E i \in DOMAIN callers : Race_Emit(i)
    \/ \E i \in DOMAIN callers : Race_SetLastEmit(i)
    \/ Tick

RaceSpec == RaceInit /\ [][RaceNext]_vars

Abs(x) == IF x >= 0 THEN x ELSE 0 - x

\* C11 (exclusive throttle check-and-set): of two attempts that observed the
\* same last_emit at most one emits, and two throttled emissions are never less
\* than 120ms apart.
C11_Exclusive ==
    \A i, j \in DOMAIN callers :
        (i # j /\ callers[i].emitted /\ callers[j].emitted) =>
            /\ callers[i].seen # callers[j].seen
            /\ Abs(callers[i].emitted_at - callers[j].emitted_at) >= THROTTLE_MS

\* ============================================ the reporter, late in a scan
\* The throttle is only consulted on the 512th file and the 64th directory.
\* This specification runs the same scan_directory and the same walk as Spec,
\* with the clock running, from two kinds of states: the call itself, and the
\* walk of a root directory in which MaxLead files and directories are missing
\* to the next attempt.  Until then the walk met, directly in the root, empty
\* files and empty directories only, all below a floor of 1 byte: nothing was
\* kept and nothing skipped.  `disk` records what is revealed from there on.
MaxLead == 1

ThrottleOptions ==
    [min_node_bytes |-> 1, max_children_per_dir |-> MaxChildrenPerDir,
     max_total_nodes |-> MaxEntries + 1]

LateCounts ==
    {c \in ((EMIT_EVERY_FILES - MaxLead) .. (EMIT_EVERY_FILES - 1))
             \X ((EMIT_EVERY_DIRS - MaxLead) .. (EMIT_EVERY_DIRS - 1)) : TRUE}

LateInWalk ==
    \E c \in LateCounts :
        /\ pc = "walk"
        /\ opts = ThrottleOptions
        /\ stack = <<[DirFrame(RootPath, 0) EXCEPT !.iter = c[1] + c[2] - 1]>>
        /\ stats = NoStats
        /\ returned_nodes = 1
        /\ progress = [emit_force(ProgressReporter_new(0), 0, RootPath) EXCEPT
                          !.scanned_files = c[1], !.scanned_dirs = c[2]]
        /\ now = 0
        /\ result = NoResult
        /\ disk = {DiskEntry(RootPath, "dir", 0)}
        /\ callers = <<>>

ThrottleInit == (Init /\ opts = ThrottleOptions) \/ LateInWalk

ThrottleNext == Next \/ Tick

ThrottleSpec == ThrottleInit /\ [][ThrottleNext]_vars

\* What a step did to the reporter (the reporter exists once pc # "call").
HasReporter == pc # "call" /\ pc' # "call" /\ ~RootIs("missing")
FileCounted == progress'.scanned_files # progress.scanned_files
DirCounted == progress'.scanned_dirs # progress.scanned_dirs
Emitted == Len(progress'.window) > Len(progress.window)
\* The call was the 512th file_scanned or the 64th dir_scanned.
AttemptMade ==
    \/ FileCounted /\ progress'.scanned_files % EMIT_EVERY_FILES = 0
    \/ DirCounted /\ progress'.scanned_dirs % EMIT_EVERY_DIRS = 0

\* C12 (throttle rule, single caller): a file_scanned or dir_scanned call emits
\* only on the 512th file or the 64th directory and only if at least 120ms have
\* passed since last_emit; under 120ms it emits nothing and leaves last_emit
\* alone; and every emission, forced or not, sets last_emit to its time.
C12_ThrottleRule ==
    [][HasReporter =>
        /\ ((FileCounted \/ DirCounted) /\ Emitted) =>
             /\ AttemptMade
             /\ now - progress.last_emit >= THROTTLE_MS
             /\ Len(progress'.window) = Len(progress.window) + 1
        /\ ((FileCounted \/ DirCounted) /\ now - progress.last_emit < THROTTLE_MS) =>
             /\ progress'.window = progress.window
             /\ progress'.last_emit = progress.last_emit
        /\ Emitted => progress'.last_emit = now']_vars

\* The walk is going on and the window has received a throttled event, on the
\* 512th file, 120ms or more after the start marker.
C12_Witness ==
    /\ pc = "walk"
    /\ Len(progress.window) = 2
    /\ progress.window[2].scanned_files = EMIT_EVERY_FILES
    /\ progress.last_emit >= THROTTLE_MS

\* One event reports no less work than another, and more.
EventLeq(a, b) ==
    /\ a.scanned_files <= b.scanned_files
    /\ a.scanned_dirs <= b.scanned_dirs
    /\ a.total_bytes <= b.total_bytes
EventLess(a, b) ==
    /\ EventLeq(a, b)
    /\ \/ a.scanned_files < b.scanned_files
       \/ a.scanned_dirs < b.scanned_dirs
       \/ a.total_bytes < b.total_bytes

FinalEvent == progress.window[Len(progress.window)]
EarlierEvents ==
    {progress.window[i] : i \in 1 .. Len(progress.window) - 1}
FinalEmitted == pc = "done" /\ result.tag = "Ok"

\* C13 as claimed (final event dominates): the counters of the final forced
\* event are >= those of every earlier event of the scan and strictly greater
\* in at least one component.
C13_Original ==
    FinalEmitted => \A e \in EarlierEvents : EventLess(e, FinalEvent)

\* C13 as amended: the counters of the final forced event are >= those of
\* every earlier event of the scan, and strictly greater than those of the
\* start marker when the root is a file or a directory.
C13_FinalDominates ==
    FinalEmitted =>
        /\ \A e \in EarlierEvents : EventLeq(e, FinalEvent)
        /\ (RootIs("file") \/ RootIs("dir")) =>
             EventLess(progress.window[1], FinalEvent)

\* A finished scan with a throttled event between the two markers, and a file
\* reported after it.
C13_Witness ==
    /\ FinalEmitted
    /\ Len(progress.window) = 3
    /\ EventLess(progress.window[2], FinalEvent)

\* C14 (PathNotFound precedes all work): when the root does not exist at call
\* time, scan_directory returns the path-not-found error with no reporter
\* created, no progress event emitted (not even the start marker) and no walk
\* started: nothing is read, no frame is pushed, nothing is counted.
C14_NotFoundFirst ==
    RootIs("missing") =>
        /\ pc = "done"
        /\ result = Err(<<"PathNotFound">>)
        /\ progress = NoReporter
        /\ stack = <<>>
        /\ stats = NoStats
        /\ returned_nodes = 0
        /\ disk = {DiskEntry(RootPath, "missing", 0)}

\* The call has returned for a root that does not exist.
C14_Witness == pc = "done" /\ RootIs("missing") /\ result.tag = "Err"

\* The walk is one sequential thread that runs to its return: every step that
\* can be taken is taken.
\* Termination does not read the options: the walk is run with a floor that
\* keeps some files and drops others, and a budget that never binds.
FairInit == Init /\ opts = ThrottleOptions
FairSpec == FairInit /\ [][Next]_vars /\ WF_vars(Next)

\* The failures of each kind met below the root.
FailuresOf(kind) == {e \in Below : e.kind = kind}

\* C15 (failures below the root never abort): once the root frame is pushed,
\* whatever entries fail to be read, to give their metadata or to be opened,
\* the walk eventually returns Ok with the root node; each failure adds exactly
\* one to the skip counter; the stack is never found empty by the loop, and the
\* fallback result "Scan aborted unexpectedly." is never produced.
C15_NeverAborts ==
    /\ [](pc = "walk" => stack # <<>>)
    /\ [](result # Err(<<"Aborted">>))
    /\ [][pc = "walk" =>
            stats'.skipped_entries - stats.skipped_entries
                = Cardinality(DiskFailures') - Cardinality(DiskFailures)]_vars
    /\ (pc = "walk") ~> (Returned /\ Tree.path = RootPath /\ Tree.kind = "Directory")

\* A walk that met a failure of each kind below the root, and returned.
C15_Witness ==
    /\ Returned
    /\ RootIs("dir")
    /\ FailuresOf("read_error") # {}
    /\ FailuresOf("meta_error") # {}
    /\ FailuresOf("dir_denied") # {}
    /\ stats.skipped_entries = 3

\* The stack is the chain of ancestors of the directory being read: the frame
\* at index i (from 0) has depth i and the path of the ancestor at that depth.
AncestorChain ==
    \A i \in DOMAIN stack :
        /\ stack[i].depth = i - 1
        /\ Len(stack[i].path) = i - 1
        /\ IsPrefix(stack[i].path, stack[Len(stack)].path)

\* A step that pops the top frame, and the frame it pops.
Pops == pc = "walk" /\ Len(stack') = Len(stack) - 1
Popped == stack[Len(stack)]

\* C16 (children finalized before the parent): at every step of the walk the
\* stack is the chain of ancestors of the directory being read, frame i having
\* depth i; a frame is popped only when no frame of a subdirectory of it is on
\* the stack, with a size that is the sum of every file beneath it, and that
\* size is folded into the frame below it; the popped frame has depth 0 exactly
\* when the stack is empty after the pop.
C16_ChildrenFirst ==
    /\ [](pc = "walk" => AncestorChain)
    /\ [][Pops =>
            /\ \A i \in DOMAIN stack' : stack'[i].path # Popped.path
                                        /\ IsPrefix(stack'[i].path, Popped.path)
            /\ Popped.size = DiskBytes(Popped.path)
            /\ stack' # <<>> =>
                 /\ stack'[Len(stack')].size
                        = stack[Len(stack')].size + Popped.size
                 /\ stack'[Len(stack')].path = stack[Len(stack')].path
            /\ (Popped.depth = 0) <=> (stack' = <<>>)]_vars

\* A completed walk of a root holding a directory that holds a directory that
\* holds a file of nonzero length: two frames were finalized before the root.
C16_Witness ==
    /\ Returned
    /\ \E d \in Below, f \in Below :
        /\ d.kind = "dir" /\ Len(d.path) = 2
        /\ f.kind = "file" /\ f.size > 0 /\ Len(f.path) = 3
        /\ IsPrefix(d.path, f.path)
    /\ Tree.size > 0

\* The budget is spent: the counter has reached max_total_nodes.
BudgetSpent == returned_nodes >= opts.max_total_nodes

\* A step of the walk that reads a regular file of at least the floor while the
\* budget is spent, and one that completes such a non-root directory.
FileRead(e) == pc = "walk" /\ disk' = disk \cup {e} /\ e \notin disk /\ e.kind = "file"
DropsFile ==
    \E e \in disk' : FileRead(e) /\ e.size >= opts.min_node_bytes /\ BudgetSpent
DropsDirectory ==
    Pops /\ Popped.depth # 0 /\ Popped.size >= opts.min_node_bytes /\ BudgetSpent

\* C17 (truncation flag): the hit-node-limit flag starts unset, is raised by
\* exactly the steps that drop a candidate of at least min_node_bytes (a file,
\* or a completed non-root directory) because the counter had reached
\* max_total_nodes, and is never lowered, so at the end of the scan it is set
\* iff such a drop happened; a dropped candidate takes nothing from the budget
\* and enters no buffer, and its size is still added to the frame of its parent
\* and so reaches the sizes of all its ancestors, up to the root.
C17_TruncationFlag ==
    /\ [](pc \in {"call", "spawned"} => ~stats.hit_node_limit)
    /\ [][pc = "walk" =>
            /\ stats'.hit_node_limit
                 <=> (stats.hit_node_limit \/ DropsFile \/ DropsDirectory)
            /\ (DropsFile \/ DropsDirectory) =>
                 /\ returned_nodes' = returned_nodes
                 /\ Buffered' \subseteq Buffered
            /\ \A e \in disk' : (FileRead(e) /\ DropsFile) =>
                 stack'[Len(stack)].size = stack[Len(stack)].size + e.size
            /\ DropsDirectory =>
                 stack'[Len(stack')].size = stack[Len(stack')].size + Popped.size]_vars
    /\ [](Returned /\ stats.hit_node_limit =>
            \A d \in Directories : d.size = DiskBytes(d.path))

\* A completed scan with the flag set, in which a directory of nonzero size
\* that met the floor is missing from the tree while the root counts its bytes.
C17_Witness ==
    /\ Returned
    /\ stats.hit_node_limit
    /\ opts.max_total_nodes >= 1
    /\ \E e \in Below :
        /\ e.kind = "dir"
        /\ DiskBytes(e.path) > 0
        /\ DiskBytes(e.path) >= opts.min_node_bytes
        /\ \A n \in NodesOf(Tree) : n.path # e.path
    /\ Tree.size = DiskBytes(RootPath)

\* ------------------------------------------------ one frame's buffer, alone
\* A single frame is fed admitted candidates of any sizes, in any order, through
\* maybe_keep_child, and is then completed. `disk` records what was admitted.
MaxAdmitted == 5
CandidateSizes == 0 .. MaxFileSize + 1

KeepOptions ==
    {o \in ScanOptions : o.min_node_bytes = 0 /\ o.max_total_nodes = MaxEntries + 1}

KeepInit ==
    /\ pc = "keep"
    /\ opts \in KeepOptions
    /\ stack = <<DirFrame(RootPath, 0)>>
    /\ stats = NoStats
    /\ returned_nodes = 1
    /\ progress = NoReporter
    /\ now = 0
    /\ result = NoResult
    /\ disk = {}
    /\ callers = <<>>

\* One candidate is admitted to the frame's buffer.
Keep_Admit ==
    /\ pc = "keep"
    /\ stack[1].iter < MaxAdmitted
    /\ \E size \in CandidateSizes :
        LET child_path == <<stack[1].iter + 1>>
            child == FsNode(child_path, "File", size, <<>>, NoError)
        IN  /\ stack' = [stack EXCEPT
                            ![1].iter = @ + 1,
                            ![1].size = @ + size,
                            ![1].children =
                                maybe_keep_child(@, child, opts.max_children_per_dir)]
            /\ Reveal(child_path, "file", size)
    /\ returned_nodes' = returned_nodes + 1
    /\ UNCHANGED <<pc, opts, stats, progress, now, result, callers>>

\* The frame is completed: final sort and truncation of its buffer.
Keep_Complete ==
    /\ pc = "keep"
    /\ result' = Ok(FsNode(RootPath, "Directory", stack[1].size,
                           FinalizeChildren(stack[1].children,
                                            opts.max_children_per_dir),
                           NoError))
    /\ pc' = "kept"
    /\ stack' = <<>>
    /\ UNCHANGED <<opts, stats, returned_nodes, progress, now, disk, callers>>

KeepNext == Keep_Admit \/ Keep_Complete
KeepSpec == KeepInit /\ [][KeepNext]_vars

Min(a, b) == IF a <= b THEN a ELSE b
\* How many elements of a sequence of nodes, and how many admitted candidates,
\* have a given size; how many admitted candidates are larger.
Occurrences(children, v) ==
    Cardinality({i \in DOMAIN children : children[i].size = v})
AdmittedOf(v) == Cardinality({e \in disk : e.size = v})
AdmittedAbove(v) == Cardinality({e \in disk : e.size > v})
\* How often the size v occurs among the k largest admitted sizes.
AmongLargest(k, v) == Min(AdmittedOf(v), Max(0, k - AdmittedAbove(v)))

\* C18 (amortized top-K equals true top-K): after any sequence of admissions
\* through maybe_keep_child and the final sort and truncation, the multiset of
\* sizes of the children list is the multiset of the max_children_per_dir
\* largest admitted sizes (all of them when fewer were admitted), every child
\* being one of the admitted candidates; and when max_children_per_dir >= 1
\* the buffer holds fewer than 2 * max_children_per_dir entries after every
\* maybe_keep_child call.
C18_TopK ==
    /\ (pc = "keep" /\ opts.max_children_per_dir >= 1) =>
            Len(stack[1].children) < 2 * opts.max_children_per_dir
    /\ pc = "kept" =>
        /\ \A v \in CandidateSizes :
              Occurrences(Tree.children, v)
                  = AmongLargest(opts.max_children_per_dir, v)
        /\ \A i \in DOMAIN Tree.children :
              DiskEntry(Tree.children[i].path, "file", Tree.children[i].size) \in disk
        /\ \A i, j \in DOMAIN Tree.children :
              i # j => Tree.children[i].path # Tree.children[j].path

\* The buffer was cut in mid-course, and a candidate admitted after the cut,
\* larger than those before it, heads the children list.
C18_Witness ==
    /\ pc = "kept"
    /\ opts.max_children_per_dir = 2
    /\ Cardinality(disk) = 5
    /\ Tree.children[1].path = <<5>>
    /\ \A e \in disk : e.path # <<5>> => e.size < Tree.children[1].size
    /\ Len(Tree.children) = 2

\* The walk of a root directory has begun (the root is counted).
RootCounted == pc \in {"walk", "walked", "done"} /\ RootIs("dir")

\* C19 (budget accounting): the returned-node counter never decreases; once
\* the root directory is counted it is at most max(1, max_total_nodes) and at
\* least 1 plus the number of nodes held, at any nesting level, in the buffers
\* of the frames on the stack (and at least the number of nodes of the tree
\* once returned): a node discarded by a truncation or with a dropped ancestor
\* stays charged to the budget.
C19_BudgetAccounting ==
    /\ [][returned_nodes' >= returned_nodes]_vars
    /\ [](RootCounted =>
            /\ returned_nodes <= Max(1, opts.max_total_nodes)
            /\ returned_nodes >= 1 + Cardinality(Buffered)
            /\ Returned => returned_nodes >= CountNodes(Tree))

\* A returned tree with fewer nodes than were charged: a kept file was later
\* discarded, by a truncation or with its directory, and not refunded.
C19_Witness ==
    /\ Returned
    /\ RootIs("dir")
    /\ returned_nodes > CountNodes(Tree)
    /\ returned_nodes = opts.max_total_nodes

\* The directories that were scanned (opened and read), the root included.
ScannedDirs == {e \in disk : e.kind = "dir"}
\* The size the walk finds for an entry: a file's length, a directory's total.
FoundSize(e) == IF e.kind = "file" THEN e.size ELSE DiskBytes(e.path)
\* The candidates of a directory: its regular files and scanned subdirectories
\* of at least min_node_bytes.
Candidates(path) ==
    {e \in EntriesIn(path) :
        e.kind \in {"file", "dir"} /\ FoundSize(e) >= opts.min_node_bytes}
NothingCut ==
    /\ ~stats.hit_node_limit
    /\ \A d \in ScannedDirs :
          Cardinality(Candidates(d.path)) <= opts.max_children_per_dir
\* The entry e is in the tree, as a child of the node of the directory d.
ChildOf(e, d) ==
    \E n \in NodesOf(Tree) :
        /\ n.path = d.path /\ n.kind = "Directory"
        /\ \E i \in DOMAIN n.children :
            /\ n.children[i].path = e.path
            /\ n.children[i].kind = (IF e.kind = "file" THEN "File" ELSE "Directory")
            /\ n.children[i].size = FoundSize(e)

\* C20 (completeness when nothing was cut): if a completed scan ends with the
\* hit-node-limit flag unset and no directory had more than
\* max_children_per_dir candidates, every regular file of at least
\* min_node_bytes and every scanned non-root directory of aggregate size at
\* least min_node_bytes is in the returned tree, as a child of the node of its
\* parent directory.
C20_Complete ==
    (Returned /\ NothingCut) =>
        \A d \in ScannedDirs : \A e \in Candidates(d.path) : ChildOf(e, d)

\* Nothing was cut in a scan that kept a directory, a file inside it, and left
\* out a file below the floor.
C20_Witness ==
    /\ Returned /\ NothingCut
    /\ \E d \in ScannedDirs, f \in disk :
        /\ Len(d.path) = 1
        /\ f \in Candidates(d.path) /\ f.kind = "file"
        /\ d \in Candidates(RootPath)
    /\ \E g \in Below : g.kind = "file" /\ g.size < opts.min_node_bytes
    /\ CountNodes(Tree) = 3

====
